---- MODULE Spec2Model ----
(***************************************************************************)
(* Off-net feasibility calculator: the dataset normalizer and the day by   *)
(* day cost simulator of simulation.py (class OffNetSimulator), driven as  *)
(* main.py drives them.                                                    *)
(*                                                                         *)
(* Numbers.  The program computes in float64.  The model computes in       *)
(* exact rational arithmetic extended with the three IEEE special values   *)
(* the program can produce: a number is a record [n, d] with d >= 0 and    *)
(* gcd(n, d) = 1; d = 0 encodes +inf (n = 1), -inf (n = -1) and NaN        *)
(* (n = 0).  Rounding error of float64 is not modelled.                    *)
(***************************************************************************)
EXTENDS Integers, Sequences, FiniteSets, TLC

VARIABLES
    scenario,                \* which input space the run draws from (ghost)
    raw_data,                \* the dataset as loaded, before any rescaling (ghost)
    user_data,               \* the dataset object shared by the simulators
    sims,                    \* params of the simulators constructed so far
    self,                    \* the simulator whose run_simulation is/was running
    compute_aws,             \* run_simulation's argument
    pc,                      \* "idle", "loop", "done", "error"
    day,                     \* the loop variable of run_simulation
    on_net_costs,            \* run_simulation's locals
    off_net_costs,
    sent_requests,
    sent_data_gb,
    active_users,
    required_bandwidth_gbps,
    rows_read,               \* dataset rows the run has read so far (ghost)
    results                  \* what each finished call handed to its caller

vars == <<scenario, raw_data, user_data, sims, self, compute_aws, pc, day,
          on_net_costs, off_net_costs, sent_requests, sent_data_gb,
          active_users, required_bandwidth_gbps, rows_read, results>>

(***************************************************************************)
(* Bounds of the model and constants of the program.                       *)
(***************************************************************************)
MaxHorizon == 4
MaxLifeHorizon == 731
MaxSims == 2
MaxRuns == 2

KB_PER_GB == 1048576
GB_PER_UNIT == 1024
DAYS_PER_MONTH == 30
DAYS_PER_YEAR == 365
PERCENT == 100
SECONDS_PER_DAY == 24 * 60 * 60

(***************************************************************************)
(* float arithmetic                                                        *)
(***************************************************************************)
Abs(x) == IF x < 0 THEN -x ELSE x

Sign(x) == IF x < 0 THEN -1 ELSE IF x > 0 THEN 1 ELSE 0

RECURSIVE GCD(_, _)
GCD(a, b) == IF b = 0 THEN a ELSE GCD(b, a % b)

\* the number n/d in lowest terms; d = 0 gives inf, -inf or NaN
Norm(n, d) ==
    IF d = 0 THEN [n |-> Sign(n), d |-> 0]
    ELSE LET g == GCD(Abs(n), Abs(d))
         IN  [n |-> Sign(d) * (n \div g), d |-> Abs(d) \div g]

I(k) == [n |-> k, d |-> 1]

Zero == I(0)

NaN == [n |-> 0, d |-> 0]

Inf == [n |-> 1, d |-> 0]

IsNaN(a) == a.d = 0 /\ a.n = 0

IsFinite(a) == a.d > 0

FMul(a, b) ==
    IF a.d = 0 \/ b.d = 0 THEN [n |-> Sign(a.n) * Sign(b.n), d |-> 0]
    ELSE LET g1 == GCD(Abs(a.n), b.d)
             g2 == GCD(Abs(b.n), a.d)
         IN  IF a.n = 0 \/ b.n = 0 THEN Zero
             ELSE [n |-> (a.n \div g1) * (b.n \div g2),
                   d |-> (a.d \div g2) * (b.d \div g1)]

\* 1/a; 1/0.0 is inf, as numpy divides
FInv(a) ==
    IF a.d = 0 THEN (IF a.n = 0 THEN NaN ELSE Zero)
    ELSE IF a.n = 0 THEN Inf
    ELSE [n |-> Sign(a.n) * a.d, d |-> Abs(a.n)]

FDiv(a, b) == FMul(a, FInv(b))

FAdd(a, b) ==
    IF a.d = 0 /\ b.d = 0 THEN (IF a.n = b.n THEN a ELSE NaN)
    ELSE IF a.d = 0 THEN a
    ELSE IF b.d = 0 THEN b
    ELSE LET g == GCD(a.d, b.d)
         IN  Norm(a.n * (b.d \div g) + b.n * (a.d \div g), (a.d \div g) * b.d)

FNeg(a) == [n |-> -a.n, d |-> a.d]

FSub(a, b) == FAdd(a, FNeg(b))

\* a < b as floats compare: false as soon as one side is NaN
FLess(a, b) ==
    IF IsNaN(a) \/ IsNaN(b) THEN FALSE
    ELSE IF a.d = 0 /\ b.d = 0 THEN a.n < b.n
    ELSE IF a.d = 0 THEN a.n < 0
    ELSE IF b.d = 0 THEN b.n > 0
    ELSE LET g == GCD(a.d, b.d)
         IN  a.n * (b.d \div g) < b.n * (a.d \div g)

FLeq(a, b) == ~IsNaN(a) /\ ~IsNaN(b) /\ ~FLess(b, a)

(***************************************************************************)
(* pandas / numpy helpers                                                  *)
(***************************************************************************)
RECURSIVE SumSkipNa(_)
SumSkipNa(s) ==
    IF s = <<>> THEN Zero
    ELSE LET rest == SumSkipNa(SubSeq(s, 1, Len(s) - 1))
             x == s[Len(s)]
         IN  IF IsNaN(x) THEN rest ELSE FAdd(rest, x)

Column(data, col) == [i \in 1..Len(data) |-> data[i][col]]

\* Series.sum(): NaN entries are skipped
SeriesSum(data, col) == SumSkipNa(Column(data, col))

\* Series.mean(): NaN entries are skipped; NaN when nothing is left
SeriesMean(data, col) ==
    LET c == Column(data, col)
        k == Cardinality({i \in 1..Len(c) : ~IsNaN(c[i])})
    IN  IF k = 0 THEN NaN ELSE FDiv(SumSkipNa(c), I(k))

\* np.cumsum, by halves: the running sums of the left half, then those of
\* the right half shifted by the left half's total
RECURSIVE CumSum(_)
CumSum(s) ==
    IF Len(s) <= 1 THEN s
    ELSE LET h == Len(s) \div 2
             left == CumSum(SubSeq(s, 1, h))
             right == CumSum(SubSeq(s, h + 1, Len(s)))
         IN  left \o [i \in 1..Len(right) |-> FAdd(left[h], right[i])]

\* the Python slice s[:k]
SliceTo(s, k) ==
    IF k >= 0 THEN SubSeq(s, 1, IF k < Len(s) THEN k ELSE Len(s))
    ELSE SubSeq(s, 1, IF Len(s) + k > 0 THEN Len(s) + k ELSE 0)

\* s[-1] += x
AddToLast(s, x) == [s EXCEPT ![Len(s)] = FAdd(@, x)]

(***************************************************************************)
(* Input spaces.  SimulationParameters (models.py) is a record; a dataset  *)
(* is a sequence of rows [num_users, num_requests].                        *)
(***************************************************************************)
Row(u, r) == [num_users |-> I(u), num_requests |-> I(r)]

EmptyData == <<>>

ZeroMeanData == <<Row(0, 0), Row(0, 5)>>

ScenarioData == <<Row(100, 1000), Row(200, 2000), Row(150, 1500)>>

SparseData == <<Row(1, 200), Row(3, 0)>>

UniformData == <<Row(2, 86400)>>

BusyData == <<Row(1, 86400), Row(3, 172800)>>

Costs(on_bw, off_bw, hw_on, hw_off, up_on, up_off, link) ==
    [on_net_bandwidth_cost_per_gb |-> on_bw,
     off_net_bandwidth_cost_per_gb |-> off_bw,
     hardware_cost_on_net_per_month |-> hw_on,
     hardware_cost_off_net_per_month |-> hw_off,
     upfront_hardware_cost_on_net |-> up_on,
     upfront_hardware_cost_off_net |-> up_off,
     transfer_link_cost_per_gbps |-> link]

\* bandwidth costs 0.1 and 0.05 and no hardware cost
BandwidthOnlyCosts == Costs(Norm(1, 10), Norm(1, 20), Zero, Zero, Zero, Zero, I(1000))

\* as the defaults of main.py's widgets, off-net hardware the dearer, scaled down
DefaultCosts ==
    Costs(Norm(1, 10), Norm(1, 20), I(60), I(150), I(100), I(200), I(1000))

\* on-net and off-net cost the same
TieCosts == Costs(Norm(1, 20), Norm(1, 20), I(60), I(60), I(100), I(100), Zero)

SimulationParameters(T, kb, U, years, sla, c) ==
    [time_horizon_days |-> T,
     avg_request_size_kb |-> I(kb),
     avg_num_users |-> U,
     off_net_bandwidth_cost_per_gb |-> c.off_net_bandwidth_cost_per_gb,
     on_net_bandwidth_cost_per_gb |-> c.on_net_bandwidth_cost_per_gb,
     hardware_cost_off_net_per_month |-> c.hardware_cost_off_net_per_month,
     hardware_cost_on_net_per_month |-> c.hardware_cost_on_net_per_month,
     upfront_hardware_cost_off_net |-> c.upfront_hardware_cost_off_net,
     upfront_hardware_cost_on_net |-> c.upfront_hardware_cost_on_net,
     hardware_life_cycle_years |-> years,
     transfer_link_cost_per_gbps |-> c.transfer_link_cost_per_gbps,
     sla_percentage |-> I(sla)]

DatasetSpace(sc) ==
    CASE sc = "main" ->
            {EmptyData, ZeroMeanData, ScenarioData, SparseData, UniformData}
      [] sc = "lifecycle" -> {UniformData, BusyData}
      [] sc = "reuse" -> {SparseData, UniformData}

ParamSpace(sc) ==
    CASE sc = "main" ->
            {SimulationParameters(T, KB_PER_GB, U, 5, sla, c) :
                T \in -1..MaxHorizon, U \in {0, 2, 150}, sla \in {0, 50, 100},
                c \in {BandwidthOnlyCosts, DefaultCosts, TieCosts}}
            \cup
            {SimulationParameters(T, GB_PER_UNIT, 150, 5, 100, BandwidthOnlyCosts) :
                T \in -1..MaxHorizon}
      [] sc = "lifecycle" ->
            {SimulationParameters(T, KB_PER_GB, 2, years, 100, DefaultCosts) :
                T \in {DAYS_PER_YEAR - 1, DAYS_PER_YEAR, 400,
                       2 * DAYS_PER_YEAR, MaxLifeHorizon},
                years \in {1, 2}}
      [] sc = "reuse" ->
            {SimulationParameters(T, KB_PER_GB, U, 5, 100, BandwidthOnlyCosts) :
                T \in 1..2, U \in {2, 3}}

\* main.py builds one simulator per loaded dataset and runs it once
SimLimit == IF scenario = "reuse" THEN MaxSims ELSE 1

RunLimit == IF scenario = "reuse" THEN MaxRuns ELSE 1

(***************************************************************************)
(* OffNetSimulator                                                         *)
(***************************************************************************)
\* the factor upside down: mean over target
AdjustmentFactorInverted(p, data) ==
    FDiv(SeriesMean(data, "num_users"), I(p.avg_num_users))

AdjustmentFactor(p, data) ==
    FDiv(I(p.avg_num_users), SeriesMean(data, "num_users"))

\* a rescaling that keeps the columns whole numbers, as the CSV has them
Truncated(a) == IF a.d = 0 THEN a ELSE I(a.n \div a.d)

ScaleRowTruncating(row, factor) ==
    [num_users |-> Truncated(FMul(row.num_users, factor)),
     num_requests |-> Truncated(FMul(row.num_requests, factor))]

\* a rescaling that forgets the requests column
ScaleRowUsersOnly(row, factor) ==
    [num_users |-> FMul(row.num_users, factor),
     num_requests |-> row.num_requests]

ScaleRow(row, factor) ==
    [num_users |-> FMul(row.num_users, factor),
     num_requests |-> FMul(row.num_requests, factor)]

adjust_dataset(p, data) ==
    LET adjustment_factor == AdjustmentFactor(p, data)
    IN  [i \in 1..Len(data) |-> ScaleRow(data[i], adjustment_factor)]

\* the aggregate data rate before the SLA scaling
DataVolumePerSecondGbps(p, data) ==
    LET total_requests == SeriesSum(data, "num_requests")
        requests_per_second == FDiv(total_requests, I(SECONDS_PER_DAY))
    IN  FMul(requests_per_second,
             FDiv(FDiv(p.avg_request_size_kb, I(KB_PER_GB)), I(GB_PER_UNIT)))

\* the SLA percentage taken as the share not served
SlaFractionComplement(p) == FSub(I(1), FDiv(p.sla_percentage, I(PERCENT)))

SlaFraction(p) == FDiv(p.sla_percentage, I(PERCENT))

RequiredBandwidthGbps(p, data) ==
    FMul(DataVolumePerSecondGbps(p, data), SlaFraction(p))

\* a daily transfer-link cost that charges the monthly price every day
TransferLinkCostDailyUndivided(p, data) ==
    FMul(RequiredBandwidthGbps(p, data), p.transfer_link_cost_per_gbps)

TransferLinkCostDaily(p, data) ==
    FDiv(FMul(RequiredBandwidthGbps(p, data), p.transfer_link_cost_per_gbps),
         I(DAYS_PER_MONTH))

AvgRequestSizeGb(p) == FDiv(p.avg_request_size_kb, I(KB_PER_GB))

HardwareLifeCycleDays(p) == p.hardware_life_cycle_years * DAYS_PER_YEAR

\* a replay that starts one row late
DayIndexShifted(data, dy) == ((dy + 1) % Len(data)) + 1

\* the dataset row (1-based) that loop iteration dy reads
DayIndex(data, dy) == (dy % Len(data)) + 1

DailyDataVolume(p, data, dy) ==
    FMul(data[DayIndex(data, dy)].num_requests, AvgRequestSizeGb(p))

OnNetTotalCost(p, data, aws, dy) ==
    IF aws
    THEN FAdd(FDiv(p.hardware_cost_on_net_per_month, I(DAYS_PER_MONTH)),
              TransferLinkCostDaily(p, data))
    ELSE FAdd(FMul(DailyDataVolume(p, data, dy), p.on_net_bandwidth_cost_per_gb),
              FDiv(p.hardware_cost_on_net_per_month, I(DAYS_PER_MONTH)))

\* an off-net cost that takes the hardware share off instead of adding it
OffNetTotalCostMinusHardware(p, data, aws, dy) ==
    FSub(FMul(DailyDataVolume(p, data, dy), p.off_net_bandwidth_cost_per_gb),
         FDiv(p.hardware_cost_off_net_per_month, I(DAYS_PER_MONTH)))

OffNetTotalCost(p, data, aws, dy) ==
    FAdd(FMul(DailyDataVolume(p, data, dy), p.off_net_bandwidth_cost_per_gb),
         FDiv(p.hardware_cost_off_net_per_month, I(DAYS_PER_MONTH)))

\* a lifecycle test on the 0-based loop variable
LifecycleDueZeroBased(p, dy) == dy % HardwareLifeCycleDays(p) = 0

\* the lifecycle test of loop iteration dy
LifecycleDue(p, dy) == (dy + 1) % HardwareLifeCycleDays(p) = 0

\* the list a daily cost is appended to, after the lifecycle charge
WithLifecycle(costs, p, dy, upfront) ==
    IF LifecycleDue(p, dy) THEN AddToLast(costs, upfront) ELSE costs

\* the slice of the cost list that is accumulated into the timeline
CostsInTimeline(costs, T_days) == SliceTo(costs, T_days)

Recommendation(aws, total_on_net, total_off_net) ==
    IF aws THEN "Required bandwidth and transfer link cost"
    ELSE IF FLess(total_off_net, total_on_net)
         THEN "Off-net solution is more cost-effective."
         ELSE "On-net solution is more cost-effective."

Timeline(T_days, on, off, reqs, vols, users) ==
    LET cum_on == CumSum(CostsInTimeline(on, T_days))
        cum_off == CumSum(CostsInTimeline(off, T_days))
    IN  [d \in 1..(IF T_days > 0 THEN T_days ELSE 0) |->
            [Day |-> d, OnNetCost |-> cum_on[d], OffNetCost |-> cum_off[d],
             SentRequests |-> reqs[d], SentDataVolume |-> vols[d],
             ActiveUsers |-> users[d]]]

Outcome(status, error, at, timeline, recommendation, link_cost, bandwidth) ==
    [status |-> status, error |-> error, at |-> at, sim |-> self,
     compute_aws |-> compute_aws, timeline |-> timeline,
     final_recommendation |-> recommendation,
     aws_transfer_link_cost |-> link_cost,
     required_bandwidth_gbps |-> bandwidth]

Raised(error, at) == Outcome("raised", error, at, <<>>, "", Zero, Zero)

P == sims[self]

(***************************************************************************)
(* Actions                                                                 *)
(***************************************************************************)
InitIn(sc) ==
    /\ scenario = sc
    /\ raw_data \in DatasetSpace(sc)
    /\ user_data = raw_data
    /\ sims = <<>>
    /\ self = 0
    /\ compute_aws = FALSE
    /\ pc = "idle"
    /\ day = 0
    /\ on_net_costs = <<>>
    /\ off_net_costs = <<>>
    /\ sent_requests = <<>>
    /\ sent_data_gb = <<>>
    /\ active_users = <<>>
    /\ required_bandwidth_gbps = Zero
    /\ rows_read = {}
    /\ results = <<>>

Init == InitIn("main")

\* OffNetSimulator(params, user_data): keeps both and rescales the dataset
Construct ==
    /\ pc # "loop"
    /\ Len(sims) < SimLimit
    /\ \E p \in ParamSpace(scenario) :
        /\ sims' = Append(sims, p)
        /\ user_data' = adjust_dataset(p, user_data)
    /\ UNCHANGED <<scenario, raw_data, self, compute_aws, pc, day, on_net_costs,
                   off_net_costs, sent_requests, sent_data_gb, active_users,
                   required_bandwidth_gbps, rows_read, results>>

\* a run that keeps the per-day lists of the previous run
RunStartKeepingLists ==
    /\ pc # "loop"
    /\ Len(results) < RunLimit
    /\ \E s \in 1..Len(sims), aws \in BOOLEAN :
        /\ self' = s
        /\ compute_aws' = aws
        /\ on_net_costs' = <<sims[s].upfront_hardware_cost_on_net>>
        /\ off_net_costs' = <<sims[s].upfront_hardware_cost_off_net>>
    /\ required_bandwidth_gbps' = Zero
    /\ rows_read' = {}
    /\ day' = 0
    /\ pc' = "loop"
    /\ UNCHANGED <<scenario, raw_data, user_data, sims, results, sent_requests,
                   sent_data_gb, active_users>>

\* run_simulation up to the loop
RunStart ==
    /\ pc # "loop"
    /\ Len(results) < RunLimit
    /\ \E s \in 1..Len(sims), aws \in BOOLEAN :
        /\ self' = s
        /\ compute_aws' = aws
        /\ on_net_costs' = <<sims[s].upfront_hardware_cost_on_net>>
        /\ off_net_costs' = <<sims[s].upfront_hardware_cost_off_net>>
    /\ sent_requests' = <<>>
    /\ sent_data_gb' = <<>>
    /\ active_users' = <<>>
    /\ required_bandwidth_gbps' = Zero
    /\ rows_read' = {}
    /\ day' = 0
    /\ pc' = "loop"
    /\ UNCHANGED <<scenario, raw_data, user_data, sims, results>>

\* one iteration of the day loop
LoopDay ==
    /\ pc = "loop"
    /\ day < P.time_horizon_days
    /\ IF Len(user_data) = 0 \/ HardwareLifeCycleDays(P) = 0
       THEN /\ pc' = "error"
            /\ results' = Append(results, Raised("ZeroDivisionError", "loop"))
            /\ UNCHANGED <<day, on_net_costs, off_net_costs, sent_requests,
                           sent_data_gb, active_users, required_bandwidth_gbps,
                           rows_read>>
       ELSE LET day_index == DayIndex(user_data, day)
                daily_users == user_data[day_index].num_users
                daily_requests == user_data[day_index].num_requests
            IN  /\ rows_read' = (IF compute_aws THEN 1..Len(user_data)
                                 ELSE rows_read \cup {day_index})
                /\ required_bandwidth_gbps' =
                       (IF compute_aws THEN RequiredBandwidthGbps(P, user_data)
                        ELSE required_bandwidth_gbps)
                /\ on_net_costs' =
                       Append(WithLifecycle(on_net_costs, P, day,
                                            P.upfront_hardware_cost_on_net),
                              OnNetTotalCost(P, user_data, compute_aws, day))
                /\ off_net_costs' =
                       Append(WithLifecycle(off_net_costs, P, day,
                                            P.upfront_hardware_cost_off_net),
                              OffNetTotalCost(P, user_data, compute_aws, day))
                /\ sent_requests' = Append(sent_requests, daily_requests)
                /\ sent_data_gb' =
                       Append(sent_data_gb, DailyDataVolume(P, user_data, day))
                /\ active_users' = Append(active_users, daily_users)
                /\ day' = day + 1
                /\ UNCHANGED <<pc, results>>
    /\ UNCHANGED <<scenario, raw_data, user_data, sims, self, compute_aws>>

\* run_simulation after the loop: the timeline, the totals, the result
Finish ==
    /\ pc = "loop"
    /\ day >= P.time_horizon_days
    /\ LET T_days == P.time_horizon_days
           rows == IF T_days > 0 THEN T_days ELSE 0
           lengths == {rows, Len(CostsInTimeline(on_net_costs, T_days)),
                       Len(CostsInTimeline(off_net_costs, T_days)),
                       Len(sent_requests), Len(sent_data_gb), Len(active_users)}
       IN  IF Cardinality(lengths) > 1
           THEN /\ pc' = "error"
                /\ results' = Append(results, Raised("ValueError", "timeline"))
           ELSE IF rows = 0
           THEN /\ pc' = "error"
                /\ results' = Append(results, Raised("IndexError", "totals"))
           ELSE LET df == Timeline(T_days, on_net_costs, off_net_costs,
                                   sent_requests, sent_data_gb, active_users)
                    total_on_net == df[Len(df)].OnNetCost
                    total_off_net == df[Len(df)].OffNetCost
                    transfer_link_cost ==
                        IF compute_aws
                        THEN FMul(required_bandwidth_gbps,
                                  P.transfer_link_cost_per_gbps)
                        ELSE Zero
                IN  /\ pc' = "done"
                    /\ results' = Append(results,
                           Outcome("returned", "", "", df,
                                   Recommendation(compute_aws, total_on_net,
                                                  total_off_net),
                                   transfer_link_cost, required_bandwidth_gbps))
    /\ UNCHANGED <<scenario, raw_data, user_data, sims, self, compute_aws, day,
                   on_net_costs, off_net_costs, sent_requests, sent_data_gb,
                   active_users, required_bandwidth_gbps, rows_read>>

Next == Construct \/ RunStart \/ LoopDay \/ Finish

Spec == Init /\ [][Next]_vars

\* horizons long enough for the hardware lifecycle to elapse
InitLife == InitIn("lifecycle")

SpecLife == InitLife /\ [][Next]_vars

\* one dataset object reused by several simulators and several runs
InitReuse == InitIn("reuse")

SpecReuse == InitReuse /\ [][Next]_vars

\* the last thing handed to a caller
Last(s) == s[Len(s)]

TypeOK ==
    /\ pc \in {"idle", "loop", "done", "error"}
    /\ Len(sims) <= SimLimit
    /\ Len(results) <= RunLimit

(***************************************************************************)
(* Vocabulary of the properties                                            *)
(***************************************************************************)
Returned == pc = "done"

Result == Last(results)

Rows == Result.timeline

NonEmptyRun == Returned /\ Len(user_data) >= 1 /\ P.time_horizon_days >= 1

OffNetVerdict == "Off-net solution is more cost-effective."

OnNetVerdict == "On-net solution is more cost-effective."

Upfront(side) ==
    IF side = "on" THEN P.upfront_hardware_cost_on_net
    ELSE P.upfront_hardware_cost_off_net

\* the cost of simulation day d (1-based), as the loop computes it
DailyCost(side, d) ==
    IF side = "on" THEN OnNetTotalCost(P, user_data, compute_aws, d - 1)
    ELSE OffNetTotalCost(P, user_data, compute_aws, d - 1)

Cumulative(side, d) ==
    IF side = "on" THEN Rows[d].OnNetCost ELSE Rows[d].OffNetCost

RECURSIVE SumDailyCosts(_, _)
SumDailyCosts(side, d) ==
    IF d <= 0 THEN Zero
    ELSE FAdd(SumDailyCosts(side, d - 1), DailyCost(side, d))

\* upfront seed + daily costs of days 1..d + one upfront charge per lifecycle
\* boundary at or before day d
AccruedThrough(side, d) ==
    FAdd(FAdd(Upfront(side), SumDailyCosts(side, d)),
         FMul(Upfront(side), I(d \div HardwareLifeCycleDays(P))))

(***************************************************************************)
(* C1.  For T >= 1 and a non-empty dataset, in either mode, the timeline   *)
(* row of every day d in 1..T holds, for on-net and for off-net, the       *)
(* upfront cost plus the daily costs of days 1..d, day d's own included,   *)
(* plus one upfront charge per lifecycle boundary at or before d.          *)
(***************************************************************************)
\* C1: row d = upfront + daily costs of days 1..d + lifecycle charges up to d
C1_RowIncludesOwnDay ==
    NonEmptyRun =>
        \A d \in 1..P.time_horizon_days, side \in {"on", "off"} :
            Cumulative(side, d) = AccruedThrough(side, d)

\* what the rows hold instead: the daily costs of days 1..d-1 only
RowsLagOneDay ==
    NonEmptyRun =>
        \A d \in 1..P.time_horizon_days, side \in {"on", "off"} :
            Cumulative(side, d) =
                FAdd(FAdd(Upfront(side), SumDailyCosts(side, d - 1)),
                     FMul(Upfront(side), I(d \div HardwareLifeCycleDays(P))))

(***************************************************************************)
(* C2.  In Canvas mode the verdict is off-net exactly when the off-net     *)
(* cost accrued over the whole horizon (seed, the daily cost of each of    *)
(* the T days, lifecycle refreshes) is strictly below the on-net cost      *)
(* accrued the same way, and on-net otherwise, ties included.              *)
(***************************************************************************)
\* C2: Canvas verdict = off-net iff whole-horizon off-net cost < on-net cost
C2_VerdictComparesWholeHorizon ==
    (NonEmptyRun /\ ~compute_aws) =>
        LET T == P.time_horizon_days
        IN  Result.final_recommendation =
                (IF FLess(AccruedThrough("off", T), AccruedThrough("on", T))
                 THEN OffNetVerdict ELSE OnNetVerdict)

(***************************************************************************)
(* C3.  For a non-empty dataset with positive mean num_users and a         *)
(* positive target U*, after adjust_dataset the mean of num_users is U*    *)
(* and every row with num_users > 0 keeps its num_requests/num_users.      *)
(***************************************************************************)
Normalizable(data, p) ==
    /\ Len(data) >= 1
    /\ FLess(Zero, SeriesMean(data, "num_users"))
    /\ p.avg_num_users > 0

\* C3: after adjust_dataset the mean is U* and requests/users is kept per row
C3_NormalizationInvariant ==
    (Len(sims) = 1 /\ Normalizable(raw_data, sims[1])) =>
        /\ SeriesMean(user_data, "num_users") = I(sims[1].avg_num_users)
        /\ \A i \in 1..Len(raw_data) :
              FLess(Zero, raw_data[i].num_users) =>
                  FDiv(user_data[i].num_requests, user_data[i].num_users)
                      = FDiv(raw_data[i].num_requests, raw_data[i].num_users)

C3_Witness ==
    /\ Len(sims) = 1
    /\ Normalizable(raw_data, sims[1])
    /\ raw_data = SparseData
    /\ sims[1].avg_num_users = 150
    /\ user_data[1].num_users = I(75)
    /\ user_data[1].num_requests = I(15000)

(***************************************************************************)
(* C4.  The extra upfront charge (beyond the day-0 seed) enters both       *)
(* cumulative series exactly on the rows whose day number is a positive    *)
(* multiple of L = hardware_life_cycle_years * 365, floor(T / L) times in  *)
(* all: once, on day 365, for L = 365 and T = 400; never when L > T.       *)
(***************************************************************************)
\* what row d adds to the series beyond the entry accumulated there anyway
\* (the seed on row 1, the preceding loop iteration's daily cost after it)
ExtraCharge(side, d) ==
    IF d = 1 THEN FSub(Cumulative(side, 1), Upfront(side))
    ELSE FSub(FSub(Cumulative(side, d), Cumulative(side, d - 1)),
              DailyCost(side, d - 1))

ChargedRows(side) ==
    {d \in 1..P.time_horizon_days : ExtraCharge(side, d) # Zero}

FiniteData ==
    \A i \in 1..Len(user_data) :
        IsFinite(user_data[i].num_users) /\ IsFinite(user_data[i].num_requests)

\* C4: the extra charge is on the rows d with L | d, and on no other row
C4_LifecycleChargeOnMultiplesOfL ==
    (NonEmptyRun /\ FiniteData
        /\ FLess(Zero, Upfront("on")) /\ FLess(Zero, Upfront("off"))) =>
        LET T == P.time_horizon_days
            L == HardwareLifeCycleDays(P)
        IN  \A side \in {"on", "off"} :
               /\ \A d \in 1..T :
                     ExtraCharge(side, d) =
                         (IF d % L = 0 THEN Upfront(side) ELSE Zero)
               /\ Cardinality(ChargedRows(side)) = T \div L

C4_Witness ==
    /\ NonEmptyRun
    /\ P.time_horizon_days = 400
    /\ HardwareLifeCycleDays(P) = 365
    /\ ChargedRows("on") = {365}
    /\ ChargedRows("off") = {365}
    /\ ExtraCharge("on", 365) = I(100)

(***************************************************************************)
(* C5.  run_simulation with time_horizon_days <= 0, or over an empty       *)
(* dataset, ends in an error raised before the first iteration of the day  *)
(* loop, and hands no timeline to the caller.                              *)
(***************************************************************************)
InvalidRun ==
    /\ pc \in {"done", "error"}
    /\ (P.time_horizon_days <= 0 \/ Len(user_data) = 0)

\* C5: an invalid run raises, and raises before the day loop
C5_FailsBeforeLoop ==
    InvalidRun =>
        /\ Result.status = "raised"
        /\ Result.at \notin {"loop", "timeline", "totals"}

\* what does hold: an error, no timeline, no row of the day loop completed
InvalidRunRaises ==
    InvalidRun =>
        /\ Result.status = "raised"
        /\ sent_requests = <<>>
        /\ Result.at = (IF P.time_horizon_days <= 0 THEN "totals" ELSE "loop")

(***************************************************************************)
(* C6.  adjust_dataset, called from the constructor, fails with an error   *)
(* when the dataset is empty or mean(num_users) is 0, and then leaves      *)
(* num_users and num_requests as they were.                                *)
(***************************************************************************)
Degenerate(data) ==
    Len(data) = 0 \/ SeriesMean(data, "num_users") = Zero

\* a simulator exists only if its constructor returned without raising
\* C6: no simulator is constructed over degenerate data, which stays as loaded
C6_NormalizerRejectsDegenerateData ==
    Degenerate(raw_data) => (sims = <<>> /\ user_data = raw_data)

(***************************************************************************)
(* C7.  For a dataset of N >= 1 rows, the requests and active users of     *)
(* the row of day d are those of dataset row (d-1) mod N; and when T < N   *)
(* the dataset rows T..N-1 are never read and no error occurs.             *)
(***************************************************************************)
CyclicReplay ==
    \A d \in 1..P.time_horizon_days :
        LET row == user_data[((d - 1) % Len(user_data)) + 1]
        IN  /\ Rows[d].SentRequests = row.num_requests
            /\ Rows[d].ActiveUsers = row.num_users

\* dataset rows T..N-1, 0-based, are rows T+1..N here
UnvisitedTail == (P.time_horizon_days + 1)..Len(user_data)

\* C7: row d replays dataset row (d-1) mod N; for T < N the tail is never read
C7_TailNeverRead ==
    /\ NonEmptyRun => CyclicReplay
    /\ (pc \in {"done", "error"} /\ P.time_horizon_days >= 1
           /\ P.time_horizon_days < Len(user_data)) =>
          (Returned /\ rows_read \cap UnvisitedTail = {})

\* C7 as amended: row d replays dataset row (d-1) mod N; for 1 <= T < N the
\* run returns, the tail is unread in Canvas mode, and in AWS mode every row
\* is read, by the sum of compute_aws_bandwidth
C7_TailNeverReadInCanvasMode ==
    /\ NonEmptyRun => CyclicReplay
    /\ (pc \in {"done", "error"} /\ P.time_horizon_days >= 1
           /\ P.time_horizon_days < Len(user_data)) =>
          /\ Returned
          /\ ~compute_aws => rows_read \cap UnvisitedTail = {}
          /\ compute_aws => rows_read = 1..Len(user_data)

C7_Witness ==
    /\ NonEmptyRun
    /\ Len(user_data) = 3
    /\ P.time_horizon_days = 4
    /\ Rows[4].SentRequests = Rows[1].SentRequests
    /\ Rows[4].SentRequests # Rows[3].SentRequests
    /\ Rows[4].ActiveUsers = user_data[1].num_users

(***************************************************************************)
(* C8.  With every cost parameter and every dataset value non-negative,    *)
(* both cumulative series are non-decreasing in the day, in both modes.    *)
(***************************************************************************)
NonNegative(x) == FLeq(Zero, x)

NonNegativeInputs ==
    /\ NonNegative(P.on_net_bandwidth_cost_per_gb)
    /\ NonNegative(P.off_net_bandwidth_cost_per_gb)
    /\ NonNegative(P.hardware_cost_on_net_per_month)
    /\ NonNegative(P.hardware_cost_off_net_per_month)
    /\ NonNegative(P.upfront_hardware_cost_on_net)
    /\ NonNegative(P.upfront_hardware_cost_off_net)
    /\ NonNegative(P.transfer_link_cost_per_gbps)
    /\ NonNegative(P.sla_percentage)
    /\ NonNegative(P.avg_request_size_kb)
    /\ \A i \in 1..Len(user_data) :
          NonNegative(user_data[i].num_users)
              /\ NonNegative(user_data[i].num_requests)

\* C8: non-negative inputs give non-decreasing cumulative series
C8_CumulativeMonotone ==
    (NonEmptyRun /\ NonNegativeInputs) =>
        \A d \in 2..P.time_horizon_days, side \in {"on", "off"} :
            FLeq(Cumulative(side, d - 1), Cumulative(side, d))

C8_Witness ==
    /\ NonEmptyRun
    /\ NonNegativeInputs
    /\ P.time_horizon_days >= 3
    /\ FLess(Cumulative("off", 1), Cumulative("off", 2))
    /\ Cumulative("off", 2) = Cumulative("off", 3)

(***************************************************************************)
(* C9.  In Canvas mode with no monthly and no upfront hardware cost,       *)
(* num_requests > 0 on every row and the off-net bandwidth cost strictly   *)
(* below the on-net one, the off-net cumulative cost is strictly below     *)
(* the on-net one on every row, day 1 to day T, and the verdict is         *)
(* off-net.                                                                *)
(***************************************************************************)
BandwidthOnlyOffNetCheaper ==
    /\ ~compute_aws
    /\ P.hardware_cost_on_net_per_month = Zero
    /\ P.hardware_cost_off_net_per_month = Zero
    /\ P.upfront_hardware_cost_on_net = Zero
    /\ P.upfront_hardware_cost_off_net = Zero
    /\ FLess(P.off_net_bandwidth_cost_per_gb, P.on_net_bandwidth_cost_per_gb)
    /\ FLess(Zero, P.avg_request_size_kb)
    /\ \A i \in 1..Len(user_data) : FLess(Zero, user_data[i].num_requests)

\* C9: off-net strictly below on-net on every row, and the off-net verdict
C9_OffNetBelowOnEveryRow ==
    (NonEmptyRun /\ BandwidthOnlyOffNetCheaper) =>
        /\ \A d \in 1..P.time_horizon_days :
              FLess(Cumulative("off", d), Cumulative("on", d))
        /\ Result.final_recommendation = OffNetVerdict

(***************************************************************************)
(* C10.  required_bandwidth_gbps is the aggregate data rate times          *)
(* sla_percentage / 100: doubling an sla_percentage in [0, 50] doubles     *)
(* it, and sla_percentage = 100 gives the data rate itself.                *)
(***************************************************************************)
WithSla(p, sla) == [p EXCEPT !.sla_percentage = sla]

SlaSamples == {Zero, I(10), I(25), Norm(75, 2), I(50)}

\* C10: required bandwidth = data rate * sla / 100, linear in sla
C10_BandwidthProportionalToSla ==
    (Returned /\ compute_aws /\ IsFinite(DataVolumePerSecondGbps(P, user_data))) =>
        LET rate == DataVolumePerSecondGbps(P, user_data)
        IN  /\ Result.required_bandwidth_gbps =
                   FDiv(FMul(rate, P.sla_percentage), I(100))
            /\ \A sla \in SlaSamples :
                   RequiredBandwidthGbps(WithSla(P, FMul(I(2), sla)), user_data)
                       = FMul(I(2), RequiredBandwidthGbps(WithSla(P, sla), user_data))
            /\ RequiredBandwidthGbps(WithSla(P, I(100)), user_data) = rate

C10_Witness ==
    /\ Returned
    /\ compute_aws
    /\ P.sla_percentage = I(50)
    /\ FLess(Zero, Result.required_bandwidth_gbps)
    /\ FMul(I(2), Result.required_bandwidth_gbps)
           = DataVolumePerSecondGbps(P, user_data)

(***************************************************************************)
(* C11.  After a Canvas-mode run the result's required_bandwidth_gbps and  *)
(* aws_transfer_link_cost are both 0.  After an AWS-mode run with T >= 1,  *)
(* aws_transfer_link_cost is required_bandwidth_gbps times                 *)
(* transfer_link_cost_per_gbps, and the transfer-link amount in each       *)
(* day's on-net cost is that monthly cost divided by 30.                   *)
(***************************************************************************)
\* the transfer-link part of the on-net cost that loop iteration k (1-based)
\* appended: the entry less the hardware share; the entry carries no lifecycle
\* charge while the horizon ends before the first boundary
TransferLinkShare(k) ==
    FSub(on_net_costs[k + 1],
         FDiv(P.hardware_cost_on_net_per_month, I(30)))

\* C11: Canvas figures are 0; AWS monthly cost = bandwidth * price, daily = monthly / 30
C11_AwsFigures ==
    (NonEmptyRun /\ FiniteData
        /\ P.time_horizon_days < HardwareLifeCycleDays(P)) =>
        IF compute_aws
        THEN /\ Result.aws_transfer_link_cost =
                    FMul(Result.required_bandwidth_gbps,
                         P.transfer_link_cost_per_gbps)
             /\ \A k \in 1..P.time_horizon_days :
                    TransferLinkShare(k) =
                        FDiv(Result.aws_transfer_link_cost, I(30))
        ELSE /\ Result.required_bandwidth_gbps = Zero
             /\ Result.aws_transfer_link_cost = Zero

C11_Witness ==
    /\ NonEmptyRun
    /\ FiniteData
    /\ compute_aws
    /\ P.time_horizon_days >= 2
    /\ FLess(Zero, Result.aws_transfer_link_cost)
    /\ FMul(I(30), TransferLinkShare(2)) = Result.aws_transfer_link_cost

(***************************************************************************)
(* C12.  run_simulation changes neither the dataset nor the parameters:    *)
(* after any sequence of runs of one simulator, in either mode, the        *)
(* dataset is as the constructor left it, and two runs in the same mode    *)
(* return identical timelines, recommendations and AWS figures.            *)
(***************************************************************************)
SameMode(i, j) ==
    results[i].sim = results[j].sim
        /\ results[i].compute_aws = results[j].compute_aws

\* C12: with one simulator the dataset stays as constructed and same-mode runs agree
C12_RunsLeaveDatasetAndAgree ==
    Len(sims) = 1 =>
        /\ user_data = adjust_dataset(sims[1], raw_data)
        /\ \A i, j \in 1..Len(results) :
              SameMode(i, j) => results[i] = results[j]

C12_Witness ==
    /\ Len(sims) = 1
    /\ Len(results) = 2
    /\ pc = "done"
    /\ SameMode(1, 2)
    /\ results[1].status = "returned"
    /\ results[2].timeline = results[1].timeline
    /\ Len(results[1].timeline) = 2
    /\ user_data # raw_data

(***************************************************************************)
(* C13.  Over one shared dataset object, whenever a simulator's            *)
(* run_simulation reads the dataset, the mean of num_users is that         *)
(* simulator's own avg_num_users: a second simulator built with another    *)
(* target does not change what an earlier simulator's later run sees.      *)
(***************************************************************************)
\* the dataset was loaded, and every simulator built, within the contract
\* of the normalizer: positive mean, positive targets
NormalizableHistory ==
    /\ Len(raw_data) >= 1
    /\ FLess(Zero, SeriesMean(raw_data, "num_users"))
    /\ \A k \in 1..Len(sims) : sims[k].avg_num_users > 0

Reading == pc = "loop"

C14_RenormalizationComposes ==
    (Len(sims) >= 2 /\ NormalizableHistory) =>
        /\ user_data = adjust_dataset(Last(sims), raw_data)
        /\ sims[Len(sims)].avg_num_users = sims[Len(sims) - 1].avg_num_users =>
              user_data = adjust_dataset(sims[Len(sims) - 1], raw_data)

C14_Witness ==
    /\ Len(sims) = 2
    /\ NormalizableHistory
    /\ raw_data = SparseData
    /\ sims[1].avg_num_users = 3
    /\ sims[2].avg_num_users = 2
    /\ user_data = raw_data
    /\ adjust_dataset(sims[1], raw_data) # raw_data

====
